---- MODULE Spec2Model ----
(***************************************************************************)
(* A model of gps_navigation.py: the RINEX navigation parser               *)
(* (parse_rinex_nav), the time helpers (convert_to_gps_seconds,            *)
(* get_time_bounds, generate_time_sequence), the Kepler solver              *)
(* (solve_kepler) and the propagation loop (compute_positions).            *)
(*                                                                         *)
(* Each routine has its own specification (SpecParse, SpecSeq, SpecGps,    *)
(* SpecKepler, SpecPos); the variables of the routines a specification     *)
(* does not run keep their initial values.                                 *)
(***************************************************************************)
EXTENDS Integers, Sequences, FiniteSets, TLC

VARIABLES
    file,       \* parse_rinex_nav: the lines read_file_lines returned (never changed)
    lines,      \* parse_rinex_nav: the local list `lines`
    nav_data,   \* parse_rinex_nav: the dict `nav_data` (a function on its keys)
    ppc,        \* parse_rinex_nav: position ("header", "blocks", "returned", "raised", "bounds")
    perr,       \* parse_rinex_nav / get_time_bounds: the exception raised ("" for none)
    bounds,     \* get_time_bounds: the (min, max) pair computed for a returned identifier
    seq_in,     \* generate_time_sequence: the arguments [start, end, dt]
    seq_out,    \* generate_time_sequence: the array returned
    seq_pc,     \* generate_time_sequence: "call" or "done"
    gps_in,     \* convert_to_gps_seconds: the arguments [y, m, d, h, mi, s]
    gps_out,    \* convert_to_gps_seconds: the value returned
    gps_pc,     \* convert_to_gps_seconds: "call" or "done"
    kep_M,      \* solve_kepler: the argument M (fixed point, 1/Scale rad)
    kep_e,      \* solve_kepler: the argument e (fixed point, 1/Scale)
    kep_E,      \* solve_kepler: the local E
    kep_iter,   \* solve_kepler: iterations of the for loop begun
    kep_pc,     \* solve_kepler: "loop", "exit", "done" or "raised"
    kep_err,    \* solve_kepler: the exception raised ("" for none)
    records,    \* compute_positions: the argument records
    times,      \* compute_positions: the argument times
    results,    \* compute_positions: the local list results
    pos_i,      \* compute_positions: epochs of `times` consumed by the for loop
    pos_pc      \* compute_positions: "loop" or "done"

pvars == <<file, lines, nav_data, ppc, perr, bounds>>
svars == <<seq_in, seq_out, seq_pc>>
gvars == <<gps_in, gps_out, gps_pc>>
kvars == <<kep_M, kep_e, kep_E, kep_iter, kep_pc, kep_err>>
cvars == <<records, times, results, pos_i, pos_pc>>
vars == <<pvars, svars, gvars, kvars, cvars>>

\* The state of a routine that a specification does not run.
PIdle ==
    /\ file = <<>> /\ lines = <<>> /\ nav_data = <<>>
    /\ ppc = "idle" /\ perr = "" /\ bounds = <<>>
SIdle == seq_in = <<>> /\ seq_out = <<>> /\ seq_pc = "idle"
GIdle == gps_in = <<>> /\ gps_out = 0 /\ gps_pc = "idle"
KIdle ==
    /\ kep_M = 0 /\ kep_e = 0 /\ kep_E = 0
    /\ kep_iter = 0 /\ kep_pc = "idle" /\ kep_err = ""
CIdle ==
    /\ records = <<>> /\ times = <<>> /\ results = <<>>
    /\ pos_i = 0 /\ pos_pc = "idle"

(***************************************************************************)
(* Bounds of the model.                                                    *)
(***************************************************************************)
MaxHeader == 1      \* header lines before the terminator
MaxChunks == 2      \* records / stray lines in the body of a file
MaxTail == 1        \* lines of a truncated record at the end of a file

(***************************************************************************)
(* parse_rinex_nav                                                         *)
(***************************************************************************)
BlockLen == 8       \* `while len(lines) >= 8`, `lines[:8]`
NumFields == 29     \* len(fields)
ToeField == 12      \* position of 'toe' in `fields` (1-based)

PRNS == {"G01", "G02"}

\* A line of the file, reduced to what parse_rinex_nav reads from it:
\*   eoh    'END OF HEADER' in line
\*   prn    line[:3].strip()
\*   tsok   int()/float() accept the columns 3..23 (year .. second)
\*   stamp  the timestamp those columns hold
\*   toks   the values of the tokens the regular expression finds, in order
\*   badtok some token the regular expression finds is rejected by float()
Line(eoh, prn, tsok, stamp, toks, badtok) ==
    [eoh |-> eoh, prn |-> prn, tsok |-> tsok, stamp |-> stamp, toks |-> toks,
     badtok |-> badtok]

HeaderText == Line(FALSE, "RIN", FALSE, 0, <<>>, FALSE)
Terminator == Line(TRUE, "", FALSE, 0, <<>>, FALSE)
BlankLine == Line(FALSE, "", FALSE, 0, <<>>, FALSE)

Rep(v, n) == [i \in 1..n |-> v]

\* The first line of a broadcast record: identifier, timestamp, a0 a1 a2.
EpochLine(prn, tsok, v) == Line(FALSE, prn, tsok, v, Rep(v, 3), FALSE)
\* A continuation line: four leading blanks, then n values.
OrbitLine(v, n, badtok) == Line(FALSE, "", FALSE, 0, Rep(v, n), badtok)

\* The input shapes of a record; every value of record number v is v, so
\* its toe is v.
\*   full   3 + 6*4 + 2 = 29 values       short  28 values
\*   long   31 values                     badts  an unparsable timestamp
\*   badtok a token such as 1.2.3D+01
Shapes == {"full", "short", "long", "badts", "badtok"}

LastTokens(shape) ==
    CASE shape = "short" -> 1
      [] shape = "long" -> 4
      [] OTHER -> 2

RecordLines(prn, shape, v) ==
    <<EpochLine(prn, shape # "badts", v)>>
    \o [i \in 1..6 |-> OrbitLine(v, 4, FALSE)]
    \o <<OrbitLine(v, LastTokens(shape), shape = "badtok")>>

ChunkKinds ==
    [prn : PRNS, shape : Shapes] \cup {[prn |-> "", shape |-> "stray"]}

ChunkLines(c, v) ==
    IF c.shape = "stray" THEN <<BlankLine>> ELSE RecordLines(c.prn, c.shape, v)

RECURSIVE BodyOf(_, _)
BodyOf(cs, i) ==
    IF i > Len(cs) THEN <<>> ELSE ChunkLines(cs[i], i) \o BodyOf(cs, i + 1)

ChunkSeqs == UNION {[1..n -> ChunkKinds] : n \in 0..MaxChunks}

\* a record cut off by the end of the file: its first n lines
TruncatedRecord(n) == SubSeq(RecordLines("G01", "full", 0), 1, n)

Files ==
    {Rep(HeaderText, h) \o (IF term THEN <<Terminator>> ELSE <<>>) \o BodyOf(cs, 1)
        \o TruncatedRecord(n) :
        h \in 0..MaxHeader, term \in BOOLEAN, cs \in ChunkSeqs, n \in 0..MaxTail}

RECURSIVE Flatten(_)
Flatten(ls) == IF ls = <<>> THEN <<>> ELSE Head(ls).toks \o Flatten(Tail(ls))

\* values: the tokens of the 8 lines of the block, in order
BlockValues(block) == Flatten(block)

\* dict(zip(fields, values)) plus the timestamp
Entry(block) ==
    [vals |-> SubSeq(BlockValues(block), 1, NumFields), stamp |-> block[1].stamp]

\* nav_data.setdefault(prn, [])
SetDefault(d, k) == IF k \in DOMAIN d THEN d ELSE d @@ (k :> <<>>)

\* faulty variant of AppendEntry (newest record first), for C8
AppendEntryFirst(d, k, entry) == [d EXCEPT ![k] = <<entry>> \o @]

\* nav_data[prn].append(entry)
AppendEntry(d, k, entry) == [d EXCEPT ![k] = Append(@, entry)]

PInit ==
    /\ file \in Files
    /\ lines = file
    /\ nav_data = <<>>
    /\ ppc = "header"
    /\ perr = ""
    /\ bounds = <<>>
    /\ SIdle /\ GIdle /\ KIdle /\ CIdle

\* while 'END OF HEADER' not in lines[0]: lines.pop(0)
SkipHeaderLine ==
    /\ ppc = "header"
    /\ lines # <<>>
    /\ ~lines[1].eoh
    /\ lines' = Tail(lines)
    /\ UNCHANGED <<file, nav_data, ppc, perr, bounds, svars, gvars, kvars, cvars>>

\* faulty variant of HeaderMissing (an empty set instead of the error), for C1
HeaderMissingReturnsEmpty ==
    /\ ppc = "header"
    /\ lines = <<>>
    /\ ppc' = "returned"
    /\ UNCHANGED <<file, lines, nav_data, perr, bounds, svars, gvars, kvars, cvars>>

\* lines[0] on the emptied list
HeaderMissing ==
    /\ ppc = "header"
    /\ lines = <<>>
    /\ ppc' = "raised"
    /\ perr' = "IndexError"
    /\ UNCHANGED <<file, lines, nav_data, bounds, svars, gvars, kvars, cvars>>

\* the loop ends on the terminator; lines.pop(0); nav_data = {}
PopTerminator ==
    /\ ppc = "header"
    /\ lines # <<>>
    /\ lines[1].eoh
    /\ lines' = Tail(lines)
    /\ nav_data' = <<>>
    /\ ppc' = "blocks"
    /\ UNCHANGED <<file, perr, bounds, svars, gvars, kvars, cvars>>

\* one iteration of `while len(lines) >= 8`
ParseBlock ==
    /\ ppc = "blocks"
    /\ Len(lines) >= BlockLen
    /\ LET block == SubSeq(lines, 1, BlockLen)
           rest == SubSeq(lines, BlockLen + 1, Len(lines))
           prn == block[1].prn
       IN  /\ lines' = rest
           /\ IF prn = ""
              THEN UNCHANGED <<nav_data, ppc, perr>>
              ELSE IF ~block[1].tsok \/ (\E i \in 1..BlockLen : block[i].badtok)
              THEN /\ nav_data' = SetDefault(nav_data, prn)
                   /\ ppc' = "raised"
                   /\ perr' = "ValueError"
              ELSE IF Len(BlockValues(block)) < NumFields
              THEN /\ nav_data' = SetDefault(nav_data, prn)
                   /\ UNCHANGED <<ppc, perr>>
              ELSE /\ nav_data' = AppendEntry(SetDefault(nav_data, prn), prn, Entry(block))
                   /\ UNCHANGED <<ppc, perr>>
    /\ UNCHANGED <<file, bounds, svars, gvars, kvars, cvars>>

\* return nav_data
ParseReturn ==
    /\ ppc = "blocks"
    /\ Len(lines) < BlockLen
    /\ ppc' = "returned"
    /\ UNCHANGED <<file, lines, nav_data, perr, bounds, svars, gvars, kvars, cvars>>

Toes(prn_data) == {prn_data[i].vals[ToeField] : i \in 1..Len(prn_data)}
SetMin(S) == CHOOSE x \in S : \A y \in S : x <= y
SetMax(S) == CHOOSE x \in S : \A y \in S : x >= y

\* process_single_prn / process_selected: get_time_bounds(nav[prn]) for a
\* key of the returned dict; min() of an empty list raises ValueError
GetTimeBounds ==
    /\ ppc = "returned"
    /\ \E prn \in DOMAIN nav_data :
          IF nav_data[prn] = <<>>
          THEN /\ perr' = "ValueError"
               /\ bounds' = <<>>
          ELSE /\ bounds' = <<SetMin(Toes(nav_data[prn])), SetMax(Toes(nav_data[prn]))>>
               /\ perr' = ""
    /\ ppc' = "bounds"
    /\ UNCHANGED <<file, lines, nav_data, svars, gvars, kvars, cvars>>

PNext ==
    \/ SkipHeaderLine
    \/ HeaderMissing
    \/ PopTerminator
    \/ ParseBlock
    \/ ParseReturn
    \/ GetTimeBounds

SpecParse == PInit /\ [][PNext]_vars

(***************************************************************************)
(* generate_time_sequence                                                  *)
(*                                                                         *)
(* np.arange(start, end + 1e-9, dt) on integer-valued arguments            *)
(* 0 <= start <= end, dt > 0.  The stop value end + 1e-9 is a binary64     *)
(* sum: half the spacing of the doubles at end is below 1e-9 exactly when  *)
(* end < 2^24, so the sum is a double above end for end < 2^24 and is end  *)
(* itself from 2^24 on.                                                    *)
(***************************************************************************)
MaxSteps == 3       \* steps of dt between start and end

TolAbsorbedFrom == 2^24

\* faulty variant of StopAboveEnd (np.arange(start, end, dt)), for C5
StopIsEnd(end) == FALSE

\* end + 1e-9 > end, in binary64
StopAboveEnd(end) == end < TolAbsorbedFrom

\* len(np.arange(start, stop, dt)) = ceil((stop - start) / dt), at least 0,
\* for stop = end + 1e-9 (above) or stop = end
ArangeLen(start, end, dt) ==
    LET d == end - start
    IN  IF d < 0 THEN 0
        ELSE IF d % dt = 0
             THEN d \div dt + (IF StopAboveEnd(end) THEN 1 ELSE 0)
             ELSE d \div dt + 1

\* np.arange: the values start + i*dt, i = 0 .. len-1
generate_time_sequence(start, end, dt) ==
    [i \in 1..ArangeLen(start, end, dt) |-> start + (i - 1) * dt]

SeqStarts == {0, 7, 597600, TolAbsorbedFrom - 60, TolAbsorbedFrom}
SeqSteps == {1, 7, 30}

SeqInputs ==
    {[start |-> a, end |-> a + n * dt + r, dt |-> dt] :
        a \in SeqStarts, dt \in SeqSteps, n \in 0..MaxSteps,
        r \in {0, 1, 6}}

SInit ==
    /\ seq_in \in {x \in SeqInputs : x.end - x.start < (x.dt * (MaxSteps + 1))}
    /\ seq_out = <<>>
    /\ seq_pc = "call"
    /\ PIdle /\ GIdle /\ KIdle /\ CIdle

GenerateTimeSequence ==
    /\ seq_pc = "call"
    /\ seq_out' = generate_time_sequence(seq_in.start, seq_in.end, seq_in.dt)
    /\ seq_pc' = "done"
    /\ UNCHANGED <<seq_in, pvars, gvars, kvars, cvars>>

SNext == GenerateTimeSequence

SpecSeq == SInit /\ [][SNext]_vars

(***************************************************************************)
(* convert_to_gps_seconds                                                  *)
(*                                                                         *)
(* jd is kept as whole days plus seconds of the day, so the arithmetic is  *)
(* exact: the rounding of the binary64 sum (below 1e-4 s) is not modelled. *)
(***************************************************************************)
YearSpan == 45      \* years from 1980 on that the inputs cover

\* faulty variant of JulianDayNumber (no century rule), for C6
JulianCalendarDayNumber(y, m, d) ==
    LET a == (14 - m) \div 12
        y_new == y + 4800 - a
        m_new == m + 12 * a - 3
    IN  d + ((153 * m_new + 2) \div 5) + 365 * y_new + y_new \div 4 - 32083

\* lines 81-84: the Julian Day Number of the civil date
JulianDayNumber(y, m, d) ==
    LET a == (14 - m) \div 12
        y_new == y + 4800 - a
        m_new == m + 12 * a - 3
    IN  d + ((153 * m_new + 2) \div 5) + 365 * y_new + y_new \div 4
          - y_new \div 100 + y_new \div 400 - 32045

\* line 85: (h - 12)/24 + mi/1440 + s/86400, in seconds (1/86400 day)
DayFraction(h, mi, s) == (h - 12) * 3600 + mi * 60 + s

\* line 86: ((jd - 2444244.5) * 86400) % (7*86400); 2444244.5 days are
\* 2444244 days and 43200 s
convert_to_gps_seconds(y, m, d, h, mi, s) ==
    ((JulianDayNumber(y, m, d) - 2444244) * 86400 + DayFraction(h, mi, s) - 43200)
        % (7 * 86400)

IsLeap(y) == (y % 4 = 0 /\ y % 100 # 0) \/ y % 400 = 0
DaysInMonth(y, m) ==
    IF m = 2 THEN (IF IsLeap(y) THEN 29 ELSE 28)
    ELSE IF m \in {4, 6, 9, 11} THEN 30 ELSE 31

GpsInputs ==
    {x \in [y : 1980..(1980 + YearSpan), m : 1..12, d : {1, 5, 6, 7, 13, 28, 29, 30, 31},
            h : {0, 12, 23}, mi : {0, 59}, s : {0, 59}] :
        x.d <= DaysInMonth(x.y, x.m)}

GInit ==
    /\ gps_in \in GpsInputs
    /\ gps_out = 0
    /\ gps_pc = "call"
    /\ PIdle /\ SIdle /\ KIdle /\ CIdle

ConvertToGpsSeconds ==
    /\ gps_pc = "call"
    /\ gps_out' = convert_to_gps_seconds(gps_in.y, gps_in.m, gps_in.d,
                                         gps_in.h, gps_in.mi, gps_in.s)
    /\ gps_pc' = "done"
    /\ UNCHANGED <<gps_in, pvars, svars, kvars, cvars>>

GNext == ConvertToGpsSeconds

SpecGps == GInit /\ [][GNext]_vars

(***************************************************************************)
(* solve_kepler                                                            *)
(*                                                                         *)
(* Angles and e are fixed-point numbers, an integer count of 1/Scale;      *)
(* products and quotients are rounded to the nearest unit.  sin is         *)
(* Bhaskara's rational approximation, cos(x) = sin(x + pi/2).              *)
(***************************************************************************)
Scale == 1000       \* units per radian (and per unit of e)
MaxAnomaly == 7     \* |M| <= MaxAnomaly half-radians

max_iter == 10      \* the default of the parameter max_iter
TolExp == 12        \* tol = 1e-12 = 10^-TolExp

Abs(x) == IF x < 0 THEN -x ELSE x

\* a / b rounded to the nearest integer, b > 0
RoundDiv(a, b) == (2 * a + b) \div (2 * b)

FMul(a, b) == RoundDiv(a * b, Scale)
FDiv(a, b) == IF b > 0 THEN RoundDiv(a * Scale, b) ELSE -RoundDiv(a * Scale, -b)

Pi == (355 * Scale) \div 113

\* sin on [0, pi]: 16 x (pi - x) / (5 pi^2 - 4 x (pi - x))
SinHalf(x) ==
    LET p == (x * (Pi - x)) \div Scale
        q == (5 * Pi * Pi) \div Scale - 4 * p
    IN  RoundDiv(16 * p * Scale, q)

Sin(x) ==
    LET r == x % (2 * Pi)
    IN  IF r <= Pi THEN SinHalf(r) ELSE -SinHalf(r - Pi)

Cos(x) == Sin(x + Pi \div 2)

\* faulty variant of KeplerDenominator (1 - cos(E)), for C10
DenominatorWithoutE(E, e) == Scale - Cos(E)

\* 1 - e*cos(E)
KeplerDenominator(E, e) == Scale - FMul(e, Cos(E))

\* faulty variant of NewtonUpdate (M dropped from the residual), for C7
NewtonUpdateWithoutM(E, e, M) ==
    E - FDiv(E - FMul(e, Sin(E)), Scale - FMul(e, Cos(E)))

\* E - (E - e*sin(E) - M) / (1 - e*cos(E))
NewtonUpdate(E, e, M) == E - FDiv(E - FMul(e, Sin(E)) - M, KeplerDenominator(E, e))

\* d < 10^-k, for d >= 0 in units of 1/Scale: d * 10^k < Scale
RECURSIVE BelowPow10(_, _)
BelowPow10(d, k) ==
    IF k = 0 THEN d < Scale
    ELSE IF d >= Scale THEN FALSE
    ELSE BelowPow10(d * 10, k - 1)

\* abs(E_next - E) < tol
Converged(E_next, E) == BelowPow10(Abs(E_next - E), TolExp)

Anomalies == {(k * Scale) \div 2 : k \in (-MaxAnomaly)..MaxAnomaly}
Eccentricities ==
    {0, Scale \div 200, Scale \div 10, Scale \div 2, (9 * Scale) \div 10, Scale - 1, Scale}

KInit ==
    /\ kep_M \in Anomalies
    /\ kep_e \in Eccentricities
    /\ kep_E = kep_M                      \* E = M
    /\ kep_iter = 0
    /\ kep_pc = "loop"
    /\ kep_err = ""
    /\ PIdle /\ SIdle /\ GIdle /\ CIdle

\* one iteration of `for _ in range(max_iter)`
KeplerIterate ==
    /\ kep_pc = "loop"
    /\ kep_iter < max_iter
    /\ kep_iter' = kep_iter + 1
    /\ IF KeplerDenominator(kep_E, kep_e) = 0
       THEN /\ kep_pc' = "raised"
            /\ kep_err' = "ZeroDivisionError"
            /\ UNCHANGED kep_E
       ELSE LET E_next == NewtonUpdate(kep_E, kep_e, kep_M)
            IN  IF Converged(E_next, kep_E)
                THEN /\ kep_pc' = "exit"          \* break
                     /\ UNCHANGED <<kep_E, kep_err>>
                ELSE /\ kep_E' = E_next
                     /\ UNCHANGED <<kep_pc, kep_err>>
    /\ UNCHANGED <<kep_M, kep_e, pvars, svars, gvars, cvars>>

\* return E, after the break or after max_iter iterations
KeplerReturn ==
    /\ \/ kep_pc = "exit"
       \/ kep_pc = "loop" /\ kep_iter >= max_iter
    /\ kep_pc' = "done"
    /\ UNCHANGED <<kep_M, kep_e, kep_E, kep_iter, kep_err, pvars, svars, gvars, cvars>>

KNext == KeplerIterate \/ KeplerReturn

SpecKepler == KInit /\ [][KNext]_vars

(***************************************************************************)
(* compute_positions                                                       *)
(*                                                                         *)
(* A record is reduced to its toe; the records satisfy sqrt_a > 0 and      *)
(* 0 <= e < 1, so lines 122-139 raise nothing.  x, y, z are functions of   *)
(* the selected record and of tk alone: a sample (t, x, y, z) is kept as   *)
(* [t, eph, tk], eph being the position of the selected record in records. *)
(***************************************************************************)
MaxRecords == 3     \* records of one satellite
MaxTimes == 2       \* target epochs of one call

WEEK == 604800      \* lines 119-120
HALF_WEEK == 302400 \* lines 119-120

\* faulty variant of the selection (the last minimal record wins), for C2
RECURSIVE MinByToeLast(_, _, _, _)
MinByToeLast(recs, t, i, best) ==
    IF i > Len(recs) THEN best
    ELSE IF Abs(t - recs[i].toe) <= Abs(t - recs[best].toe)
         THEN MinByToeLast(recs, t, i + 1, i)
         ELSE MinByToeLast(recs, t, i + 1, best)

\* min(records, key=lambda r: abs(t - r['toe'])): the first record is the
\* candidate, a later record replaces it when its key is strictly smaller
RECURSIVE MinByToe(_, _, _, _)
MinByToe(recs, t, i, best) ==
    IF i > Len(recs) THEN best
    ELSE IF Abs(t - recs[i].toe) < Abs(t - recs[best].toe)
         THEN MinByToe(recs, t, i + 1, i)
         ELSE MinByToe(recs, t, i + 1, best)

SelectEphemerisLast(recs, t) == MinByToeLast(recs, t, 2, 1)

SelectEphemeris(recs, t) == MinByToe(recs, t, 2, 1)

\* faulty variant of TimeFromEphemeris (no correction below -302400), for C3
TimeFromEphemerisOneSided(t, toe) ==
    LET tk0 == t - toe
    IN  IF tk0 > HALF_WEEK THEN tk0 - WEEK ELSE tk0

\* tk = t - toe; if tk > 302400: tk -= 604800; if tk < -302400: tk += 604800
TimeFromEphemeris(t, toe) ==
    LET tk0 == t - toe
        tk1 == IF tk0 > HALF_WEEK THEN tk0 - WEEK ELSE tk0
    IN  IF tk1 < -HALF_WEEK THEN tk1 + WEEK ELSE tk1

\* faulty variant of Sample (tk stored as the time component), for C4
SampleAtTk(recs, t) ==
    LET eph == MinByToe(recs, t, 2, 1)
        tk == TimeFromEphemeris(t, recs[eph].toe)
    IN  [t |-> tk, eph |-> eph, tk |-> tk]

Sample(recs, t) ==
    LET eph == SelectEphemeris(recs, t)
    IN  [t |-> t, eph |-> eph, tk |-> TimeFromEphemeris(t, recs[eph].toe)]

ToeValues == {0, 7200, 14400, 302400, WEEK - 1}
Epochs == {0, 7200, HALF_WEEK - 1, HALF_WEEK + 1, WEEK - 1, 2 * WEEK}

SeqsUpTo(S, lo, hi) == UNION {[1..n -> S] : n \in lo..hi}

CInit ==
    /\ records \in SeqsUpTo([toe : ToeValues], 1, MaxRecords)
    /\ times \in SeqsUpTo(Epochs, 0, MaxTimes)
    /\ results = <<>>
    /\ pos_i = 0
    /\ pos_pc = "loop"
    /\ PIdle /\ SIdle /\ GIdle /\ KIdle

\* one iteration of `for t in times`
ComputeEpoch ==
    /\ pos_pc = "loop"
    /\ pos_i < Len(times)
    /\ pos_i' = pos_i + 1
    /\ results' = Append(results, Sample(records, times[pos_i + 1]))
    /\ UNCHANGED <<records, times, pos_pc, pvars, svars, gvars, kvars>>

\* return results
PositionsReturn ==
    /\ pos_pc = "loop"
    /\ pos_i >= Len(times)
    /\ pos_pc' = "done"
    /\ UNCHANGED <<records, times, results, pos_i, pvars, svars, gvars, kvars>>

CNext == ComputeEpoch \/ PositionsReturn

SpecPos == CInit /\ [][CNext]_vars

(***************************************************************************)
(* Properties of parse_rinex_nav (SpecParse)                               *)
(***************************************************************************)
HasTerminator(f) == \E i \in 1..Len(f) : f[i].eoh
FirstTerminator(f) == CHOOSE i \in 1..Len(f) : f[i].eoh /\ \A j \in 1..(i - 1) : ~f[j].eoh

\* the n body lines: what follows the first header terminator
BodyLines(f) == SubSeq(f, FirstTerminator(f) + 1, Len(f))
\* block k (from 0): body lines 8k .. 8k+7
BodyBlock(f, k) == SubSeq(BodyLines(f), BlockLen * k + 1, BlockLen * k + BlockLen)
NumBlocks(f) == Len(BodyLines(f)) \div BlockLen

Carries(block, prn) == block[1].prn = prn /\ Len(Flatten(block)) >= NumFields
Unreadable(block) ==
    /\ block[1].prn # ""
    /\ ~block[1].tsok \/ (\E i \in 1..BlockLen : block[i].badtok)

\* the records of the blocks k .. NumBlocks-1 that carry prn, in file order
RECURSIVE RecordsFrom(_, _, _)
RecordsFrom(f, prn, k) ==
    IF k >= NumBlocks(f) THEN <<>>
    ELSE (IF Carries(BodyBlock(f, k), prn) THEN <<Entry(BodyBlock(f, k))>> ELSE <<>>)
         \o RecordsFrom(f, prn, k + 1)

RecordsOf(d, prn) == IF prn \in DOMAIN d THEN d[prn] ELSE <<>>

ParseEnded == ppc \in {"returned", "raised"}

C9_NoEmptySequence ==
    ppc \in {"blocks", "returned"} => \A prn \in DOMAIN nav_data : nav_data[prn] # <<>>

(***************************************************************************)
(* Properties of generate_time_sequence (SpecSeq)                          *)
(***************************************************************************)
\* start, start+dt, ...: every value start + k*dt that does not exceed end
EvenlySpaced(out, start, end, dt) ==
    /\ Len(out) = (end - start) \div dt + 1
    /\ out[1] = start
    /\ \A i \in 1..Len(out) : out[i] = start + (i - 1) * dt /\ out[i] <= end
    /\ out[Len(out)] + dt > end
    /\ (end - start) % dt = 0 => out[Len(out)] = end

RECURSIVE DaysBeforeYear(_)
DaysBeforeYear(y) ==
    IF y <= 1980 THEN 0
    ELSE DaysBeforeYear(y - 1) + (IF IsLeap(y - 1) THEN 366 ELSE 365)

RECURSIVE DaysBeforeMonth(_, _)
DaysBeforeMonth(y, m) ==
    IF m <= 1 THEN 0 ELSE DaysBeforeMonth(y, m - 1) + DaysInMonth(y, m - 1)

\* seconds from 1980-01-06 00:00:00 to the timestamp, counted on the calendar
SecondsSinceGpsEpoch(x) ==
    (DaysBeforeYear(x.y) + DaysBeforeMonth(x.y, x.m) + x.d - 6) * 86400
        + x.h * 3600 + x.mi * 60 + x.s

OnOrAfterGpsEpoch(x) == x.y > 1980 \/ x.m > 1 \/ x.d >= 6

\* C6: for a valid timestamp on or after 1980-01-06 00:00:00 the result is
\* the seconds elapsed since then modulo 604800, in [0, 604800).
C6_SecondsOfWeek ==
    (gps_pc = "done" /\ OnOrAfterGpsEpoch(gps_in)) =>
        /\ gps_out = SecondsSinceGpsEpoch(gps_in) % 604800
        /\ gps_out >= 0 /\ gps_out < 604800
        /\ SecondsSinceGpsEpoch(gps_in) = 0 => gps_out = 0

C6_Witness ==
    /\ gps_pc = "done"
    /\ gps_in = [y |-> 2024, m |-> 2, d |-> 29, h |-> 23, mi |-> 59, s |-> 59]
    /\ gps_out = 4 * 86400 + 86399

(***************************************************************************)
(* Properties of solve_kepler (SpecKepler)                                 *)
(***************************************************************************)
\* C7: with e = 0 the solver returns M, and its loop stops in its first
\* iteration.
C7_CircularReturnsM ==
    (kep_pc = "done" /\ kep_e = 0) => (kep_E = kep_M /\ kep_iter = 1)

C7_Witness == kep_pc = "done" /\ kep_e = 0 /\ kep_M > Pi /\ kep_E = kep_M

\* C10: with 0 <= e < 1 the solver runs at most 10 iterations, raises
\* nothing, leaves the loop at the first iteration whose change is below the
\* tolerance and otherwise after the 10th, and returns its estimate.
C10_AtMostTenSteps ==
    /\ [](kep_e < Scale =>
            /\ kep_iter <= 10
            /\ kep_pc # "raised" /\ kep_err = ""
            /\ kep_pc = "loop" => ENABLED KNext
            /\ kep_pc = "exit" => ENABLED KeplerReturn
            /\ kep_pc = "done" =>
                  \/ kep_iter = 10
                  \/ Converged(NewtonUpdate(kep_E, kep_e, kep_M), kep_E))
    /\ [][(kep_e < Scale /\ kep_pc = "loop") =>
            /\ kep_pc' = "loop" => ~Converged(kep_E', kep_E)
            /\ kep_pc' = "exit" =>
                  (kep_E' = kep_E /\ Converged(NewtonUpdate(kep_E, kep_e, kep_M), kep_E))
            /\ kep_pc' = "done" => (kep_iter = 10 /\ kep_E' = kep_E)]_vars

C10_Witness ==
    /\ kep_pc = "done"
    /\ kep_e > 0 /\ kep_e < Scale
    /\ kep_iter = 10
    /\ ~Converged(NewtonUpdate(kep_E, kep_e, kep_M), kep_E)

(***************************************************************************)
(* Properties of compute_positions (SpecPos)                               *)
(***************************************************************************)
KeyOf(t, i) == Abs(t - records[i].toe)
InWeek(x) == x >= 0 /\ x < 604800

\* C2: each sample uses the record that minimises |t - toe|, and among the
\* records attaining the minimum the one with the smallest index.
C2_NearestFirst ==
    \A k \in 1..Len(results) :
        LET t == times[k]
            j == results[k].eph
        IN  /\ j \in 1..Len(records)
            /\ \A i \in 1..Len(records) : KeyOf(t, j) <= KeyOf(t, i)
            /\ \A i \in 1..(j - 1) : KeyOf(t, i) > KeyOf(t, j)

C2_Witness ==
    \E k \in 1..Len(results) :
        /\ results[k].eph = 2
        /\ \E i \in 3..Len(records) :
              /\ records[i].toe # records[2].toe
              /\ KeyOf(times[k], i) = KeyOf(times[k], 2)

\* C3: for t and toe in [0, 604800), tk lies in [-302400, 302400] and is
\* congruent to t - toe modulo 604800.
C3_HalfWeekWrap ==
    \A k \in 1..Len(results) :
        LET t == times[k]
            toe == records[results[k].eph].toe
            tk == results[k].tk
        IN  (InWeek(t) /\ InWeek(toe)) =>
                /\ tk >= -302400 /\ tk <= 302400
                /\ (tk - (t - toe)) % 604800 = 0

C3_Witness ==
    \E k \in 1..Len(results) :
        /\ InWeek(times[k]) /\ InWeek(records[results[k].eph].toe)
        /\ times[k] - records[results[k].eph].toe < -302400
        /\ results[k].tk > 0 /\ results[k].tk <= 302400

\* C4: the call returns one sample per epoch, in the order of the epochs,
\* the i-th carrying the i-th epoch, and never changes records.
C4_OneSamplePerEpoch ==
    /\ [](/\ Len(results) = pos_i
          /\ \A i \in 1..Len(results) : results[i].t = times[i]
          /\ pos_pc = "done" => Len(results) = Len(times))
    /\ [][records' = records /\ times' = times]_vars

C4_Witness ==
    /\ pos_pc = "done"
    /\ Len(results) = 2
    /\ times[1] > times[2]
    /\ results[1].t = times[1] /\ results[2].t = times[2]
    /\ results[1].tk # times[1]
====
